---------------------------- MODULE Spec2Model ----------------------------
(***************************************************************************)
(* The rustdoc document model (src/librustdoc/doc.rs): the entity records, *)
(* the ItemTag and Page unions, the crate lookup of Doc, the narrowing     *)
(* operations of ModDoc and PageUtils, the Item capability with its        *)
(* ItemUtils accessors, and the derived structural equality.               *)
(*                                                                         *)
(* The model is read-only data plus pure operations.  A state holds the    *)
(* value an operation is applied to (subject, with its static type), the   *)
(* operation last called (op), the argument of that call (arg, None when   *)
(* the operation takes none) and what it returned (ret).  Init draws the   *)
(* subject from bounded sets; every action is one call of one operation.   *)
(***************************************************************************)
EXTENDS Integers, Sequences, FiniteSets

VARIABLES subject, arg, op, ret

vars == <<subject, arg, op, ret>>

(***************************************************************************)
(* Bounds of the model.                                                    *)
(***************************************************************************)
MaxPages == 3

MaxItems == 3

MaxId == 2

(***************************************************************************)
(* Option<T>: None is the empty sequence, Some(x) the one-element one.     *)
(* Option::get fails on None.                                              *)
(***************************************************************************)
None == <<>>

Some(x) == <<x>>

Fail == [failed |-> TRUE]

Ok(v) == [failed |-> FALSE, val |-> v]

Option_get(o) == IF Len(o) = 0 THEN Fail ELSE Ok(o[1])

(***************************************************************************)
(* Enum constructors: a value of an enum is its variant name and payload.  *)
(***************************************************************************)
CratePage(d) == [tag |-> "CratePage", doc |-> d]

ItemPage(t) == [tag |-> "ItemPage", doc |-> t]

ModTag(d) == [tag |-> "ModTag", doc |-> d]

NmodTag(d) == [tag |-> "NmodTag", doc |-> d]

ConstTag(d) == [tag |-> "ConstTag", doc |-> d]

FnTag(d) == [tag |-> "FnTag", doc |-> d]

EnumTag(d) == [tag |-> "EnumTag", doc |-> d]

TraitTag(d) == [tag |-> "TraitTag", doc |-> d]

ImplTag(d) == [tag |-> "ImplTag", doc |-> d]

TyTag(d) == [tag |-> "TyTag", doc |-> d]

StructTag(d) == [tag |-> "StructTag", doc |-> d]

ItemTagNames ==
    {"ModTag", "NmodTag", "ConstTag", "FnTag", "EnumTag", "TraitTag",
     "ImplTag", "TyTag", "StructTag"}

(***************************************************************************)
(* Records.  ItemDocs is the bounded set of item records the inputs embed; *)
(* every field takes at least two values.                                  *)
(***************************************************************************)
AstId == 1..MaxId

Section1 == [header |-> "Example", body |-> "text"]

ItemFields ==
    [id |-> AstId,
     name |-> {"a", "b"},
     path |-> {<<>>, <<"std">>},
     brief |-> {None, Some("brief")},
     desc |-> {None, Some("desc")},
     sections |-> {<<>>, <<Section1>>},
     reexport |-> BOOLEAN]

ItemDocs ==
    [id : ItemFields.id,
     name : ItemFields.name,
     path : ItemFields.path,
     brief : ItemFields.brief,
     desc : ItemFields.desc,
     sections : ItemFields.sections,
     reexport : ItemFields.reexport]

PlainItem(i, n) ==
    [id |-> i, name |-> n, path |-> <<"std">>, brief |-> None, desc |-> None,
     sections |-> <<>>, reexport |-> FALSE]

Method1 ==
    [name |-> "m", brief |-> None, desc |-> Some("method"), sections |-> <<>>,
     sig |-> Some("fn m()"), implementation |-> "Required"]

Variant1 == [name |-> "V", desc |-> None, sig |-> Some("V(int)")]

Index1 ==
    [entries |-> <<[kind |-> "Function", name |-> "f", brief |-> None,
                    link |-> "#function-f"]>>]

SimpleItemDocOf(it) == [item |-> it, sig |-> Some("sig")]

ModDocOf(it, children) == [item |-> it, items |-> children, index |-> None]

NmodDocOf(it) ==
    [item |-> it, fns |-> <<SimpleItemDocOf(PlainItem(1, "ffi"))>>,
     index |-> Some(Index1)]

EnumDocOf(it) == [item |-> it, variants |-> <<Variant1>>]

TraitDocOf(it) == [item |-> it, methods |-> <<Method1>>]

ImplDocOf(it) ==
    [item |-> it, bounds_str |-> None, trait_types |-> <<"T">>,
     self_ty |-> Some("S"), methods |-> <<Method1>>]

StructDocOf(it) == [item |-> it, fields |-> <<"x">>, sig |-> Some("struct S")]

CrateDocOf(m) == [topmod |-> m]

DocOf(ps) == [pages |-> ps]

(***************************************************************************)
(* The children and pages the inputs are built from.  ConstTag, FnTag and  *)
(* TyTag share one payload type, and here one payload value (Simple1).     *)
(***************************************************************************)
Simple1 == SimpleItemDocOf(PlainItem(1, "f"))

Simple2 == SimpleItemDocOf(PlainItem(2, "g"))

ModA == ModDocOf(PlainItem(1, "A"), <<>>)

ChildPool ==
    {ModTag(ModA), NmodTag(NmodDocOf(PlainItem(1, "n"))), ConstTag(Simple1),
     FnTag(Simple1), FnTag(Simple2), TyTag(Simple1),
     EnumTag(EnumDocOf(PlainItem(1, "e"))),
     TraitTag(TraitDocOf(PlainItem(1, "t"))),
     ImplTag(ImplDocOf(PlainItem(1, "i"))),
     StructTag(StructDocOf(PlainItem(1, "s")))}

CrateA == CrateDocOf(ModDocOf(PlainItem(1, "crate"), <<ModTag(ModA), FnTag(Simple1)>>))

CrateB == CrateDocOf(ModDocOf(PlainItem(2, "other"), <<>>))

PagePool == {CratePage(CrateA), CratePage(CrateB)} \cup {ItemPage(c) : c \in ChildPool}

SeqsUpTo(S, n) == UNION {[1..k -> S] : k \in 0..n}

(***************************************************************************)
(* impl Doc                                                                *)
(***************************************************************************)
\* The fold keeping its accumulator: the crate page found last wins.
Doc_CrateDoc_keep(self) ==
    LET F[i \in 0..Len(self.pages)] ==
            IF i = 0 THEN None
            ELSE IF self.pages[i].tag = "CratePage"
                 THEN Some(self.pages[i].doc)
                 ELSE F[i - 1]
    IN  Option_get(F[Len(self.pages)])

\* self.pages.iter().fold(None, |_m, page| ...).get(): the closure ignores
\* its accumulator _m.
Doc_CrateDoc(self) ==
    LET closure(m, page) ==
            IF page.tag = "CratePage" THEN Some(page.doc) ELSE None
        F[i \in 0..Len(self.pages)] ==
            IF i = 0 THEN None ELSE closure(F[i - 1], self.pages[i])
    IN  Option_get(F[Len(self.pages)])

\* cratemod losing the children of the root module.
Doc_cratemod_shallow(self) ==
    LET c == Doc_CrateDoc(self)
    IN  IF c.failed THEN Fail ELSE Ok([c.val.topmod EXCEPT !.items = <<>>])

\* copy self.CrateDoc().topmod
Doc_cratemod(self) ==
    LET c == Doc_CrateDoc(self)
    IN  IF c.failed THEN Fail ELSE Ok(c.val.topmod)

(***************************************************************************)
(* filt_mapper!, md!, pu!.  A pattern is the list of the constructors it   *)
(* nests, outermost first: $id(ref x) is <<id>>, ItemPage($id(ref x)) is   *)
(* <<"ItemPage", id>>.  x is bound to the innermost payload.               *)
(***************************************************************************)
RECURSIVE Match(_, _)
Match(pat, thing) ==
    IF Len(pat) = 0 THEN Some(thing)
    ELSE IF thing.tag = Head(pat) THEN Match(Tail(pat), thing.doc)
    ELSE None

\* iter().filter_map(...).collect()
filt_mapper(vec, pat) ==
    LET F[i \in 0..Len(vec)] ==
            IF i = 0 THEN <<>> ELSE F[i - 1] \o Match(pat, vec[i])
    IN  F[Len(vec)]

\* md! collecting in reverse order.
md_reversed(self, id) ==
    LET r == filt_mapper(self.items, <<id>>)
    IN  [i \in 1..Len(r) |-> r[Len(r) + 1 - i]]

md(self, id) == filt_mapper(self.items, <<id>>)

\* pu! that also unwraps the root module of a crate page.
pu_crate_as_mod(self, id) ==
    LET F[i \in 0..Len(self)] ==
            IF i = 0 THEN <<>>
            ELSE IF self[i].tag = "CratePage" /\ id = "ModTag"
                 THEN Append(F[i - 1], self[i].doc.topmod)
                 ELSE F[i - 1] \o Match(<<"ItemPage", id>>, self[i])
    IN  F[Len(self)]

pu(self, id) == filt_mapper(self, <<"ItemPage", id>>)

(***************************************************************************)
(* impl ModDoc: the nine module-level narrowing operations.                *)
(***************************************************************************)
ModDoc_mods(self) == md(self, "ModTag")

ModDoc_nmods(self) == md(self, "NmodTag")

\* fns selecting by payload type (SimpleItemDoc) instead of by tag.
ModDoc_fns_by_shape(self) ==
    LET F[i \in 0..Len(self.items)] ==
            IF i = 0 THEN <<>>
            ELSE IF self.items[i].tag \in {"ConstTag", "FnTag", "TyTag"}
                 THEN Append(F[i - 1], self.items[i].doc)
                 ELSE F[i - 1]
    IN  F[Len(self.items)]

ModDoc_fns(self) == md(self, "FnTag")

ModDoc_consts(self) == md(self, "ConstTag")

ModDoc_enums(self) == md(self, "EnumTag")

ModDoc_traits(self) == md(self, "TraitTag")

ModDoc_impls(self) == md(self, "ImplTag")

ModDoc_types(self) == md(self, "TyTag")

ModDoc_structs(self) == md(self, "StructTag")

ModDocMethods ==
    {"mods", "nmods", "fns", "consts", "enums", "traits", "impls", "types",
     "structs"}

(***************************************************************************)
(* trait PageUtils and impl PageUtils for ~[Page]: eight operations.       *)
(***************************************************************************)
PageUtilsMethods ==
    {"mods", "nmods", "fns", "consts", "enums", "traits", "impls", "types"}

PageUtils_mods(self) == pu(self, "ModTag")

PageUtils_nmods(self) == pu(self, "NmodTag")

PageUtils_fns(self) == pu(self, "FnTag")

PageUtils_consts(self) == pu(self, "ConstTag")

PageUtils_enums(self) == pu(self, "EnumTag")

PageUtils_traits(self) == pu(self, "TraitTag")

PageUtils_impls(self) == pu(self, "ImplTag")

PageUtils_types(self) == pu(self, "TyTag")

(***************************************************************************)
(* trait Item and its implementations.                                     *)
(***************************************************************************)
\* The match with the ConstTag arm returning a default record.
ItemTag_item_const_lost(self) ==
    IF self.tag = "ConstTag" THEN PlainItem(0, "") ELSE self.doc.item

ItemTag_item(self) ==
    CASE self.tag = "ModTag" -> self.doc.item
      [] self.tag = "NmodTag" -> self.doc.item
      [] self.tag = "FnTag" -> self.doc.item
      [] self.tag = "ConstTag" -> self.doc.item
      [] self.tag = "EnumTag" -> self.doc.item
      [] self.tag = "TraitTag" -> self.doc.item
      [] self.tag = "ImplTag" -> self.doc.item
      [] self.tag = "TyTag" -> self.doc.item
      [] self.tag = "StructTag" -> self.doc.item

SimpleItemDoc_item(self) == self.item

ModDoc_item(self) == self.item

NmodDoc_item(self) == self.item

EnumDoc_item(self) == self.item

TraitDoc_item(self) == self.item

ImplDoc_item(self) == self.item

StructDoc_item(self) == self.item

ItemTypes ==
    {"ItemTag", "SimpleItemDoc", "ModDoc", "NmodDoc", "EnumDoc", "TraitDoc",
     "ImplDoc", "StructDoc"}

\* self.item() for a value of static type ty, one of the types with an impl.
Item_item(ty, self) ==
    CASE ty = "ItemTag" -> ItemTag_item(self)
      [] ty = "SimpleItemDoc" -> SimpleItemDoc_item(self)
      [] ty = "ModDoc" -> ModDoc_item(self)
      [] ty = "NmodDoc" -> NmodDoc_item(self)
      [] ty = "EnumDoc" -> EnumDoc_item(self)
      [] ty = "TraitDoc" -> TraitDoc_item(self)
      [] ty = "ImplDoc" -> ImplDoc_item(self)
      [] ty = "StructDoc" -> StructDoc_item(self)

(***************************************************************************)
(* impl<A:Item> ItemUtils for A                                            *)
(***************************************************************************)
ItemUtils_id(ty, self) == Item_item(ty, self).id

ItemUtils_name(ty, self) == Item_item(ty, self).name

ItemUtils_path(ty, self) == Item_item(ty, self).path

ItemUtils_brief(ty, self) == Item_item(ty, self).brief

ItemUtils_desc(ty, self) == Item_item(ty, self).desc

ItemUtils_sections(ty, self) == Item_item(ty, self).sections

(***************************************************************************)
(* #[deriving(Eq)]: eq compares a struct field by field, an enum by        *)
(* variant and then payload, a vector by length and then element by        *)
(* element, an Option by presence and then content.                        *)
(***************************************************************************)
Section_eq(a, b) == a.header = b.header /\ a.body = b.body

Sections_eq(a, b) ==
    Len(a) = Len(b) /\ \A i \in 1..Len(a) : Section_eq(a[i], b[i])

\* eq leaving the reexport flag out.
ItemDoc_eq_no_reexport(a, b) ==
    /\ a.id = b.id
    /\ a.name = b.name
    /\ a.path = b.path
    /\ a.brief = b.brief
    /\ a.desc = b.desc
    /\ Sections_eq(a.sections, b.sections)

ItemDoc_eq(a, b) ==
    /\ a.id = b.id
    /\ a.name = b.name
    /\ a.path = b.path
    /\ a.brief = b.brief
    /\ a.desc = b.desc
    /\ Sections_eq(a.sections, b.sections)
    /\ a.reexport = b.reexport

SimpleItemDoc_eq(a, b) == ItemDoc_eq(a.item, b.item) /\ a.sig = b.sig

IndexEntry_eq(a, b) ==
    a.kind = b.kind /\ a.name = b.name /\ a.brief = b.brief /\ a.link = b.link

Index_eq(a, b) ==
    /\ Len(a.entries) = Len(b.entries)
    /\ \A i \in 1..Len(a.entries) : IndexEntry_eq(a.entries[i], b.entries[i])

OptionIndex_eq(a, b) ==
    Len(a) = Len(b) /\ (Len(a) = 1 => Index_eq(a[1], b[1]))

NmodDoc_eq(a, b) ==
    /\ ItemDoc_eq(a.item, b.item)
    /\ Len(a.fns) = Len(b.fns)
    /\ \A i \in 1..Len(a.fns) : SimpleItemDoc_eq(a.fns[i], b.fns[i])
    /\ OptionIndex_eq(a.index, b.index)

VariantDoc_eq(a, b) == a.name = b.name /\ a.desc = b.desc /\ a.sig = b.sig

EnumDoc_eq(a, b) ==
    /\ ItemDoc_eq(a.item, b.item)
    /\ Len(a.variants) = Len(b.variants)
    /\ \A i \in 1..Len(a.variants) : VariantDoc_eq(a.variants[i], b.variants[i])

MethodDoc_eq(a, b) ==
    /\ a.name = b.name
    /\ a.brief = b.brief
    /\ a.desc = b.desc
    /\ Sections_eq(a.sections, b.sections)
    /\ a.sig = b.sig
    /\ a.implementation = b.implementation

Methods_eq(a, b) ==
    Len(a) = Len(b) /\ \A i \in 1..Len(a) : MethodDoc_eq(a[i], b[i])

TraitDoc_eq(a, b) == ItemDoc_eq(a.item, b.item) /\ Methods_eq(a.methods, b.methods)

ImplDoc_eq(a, b) ==
    /\ ItemDoc_eq(a.item, b.item)
    /\ a.bounds_str = b.bounds_str
    /\ a.trait_types = b.trait_types
    /\ a.self_ty = b.self_ty
    /\ Methods_eq(a.methods, b.methods)

StructDoc_eq(a, b) ==
    ItemDoc_eq(a.item, b.item) /\ a.fields = b.fields /\ a.sig = b.sig

RECURSIVE ItemTag_eq(_, _)
ModDoc_eq(a, b) ==
    /\ ItemDoc_eq(a.item, b.item)
    /\ Len(a.items) = Len(b.items)
    /\ \A i \in 1..Len(a.items) : ItemTag_eq(a.items[i], b.items[i])
    /\ OptionIndex_eq(a.index, b.index)

ItemTag_eq(a, b) ==
    /\ a.tag = b.tag
    /\ CASE a.tag = "ModTag" -> ModDoc_eq(a.doc, b.doc)
         [] a.tag = "NmodTag" -> NmodDoc_eq(a.doc, b.doc)
         [] a.tag \in {"ConstTag", "FnTag", "TyTag"} -> SimpleItemDoc_eq(a.doc, b.doc)
         [] a.tag = "EnumTag" -> EnumDoc_eq(a.doc, b.doc)
         [] a.tag = "TraitTag" -> TraitDoc_eq(a.doc, b.doc)
         [] a.tag = "ImplTag" -> ImplDoc_eq(a.doc, b.doc)
         [] a.tag = "StructTag" -> StructDoc_eq(a.doc, b.doc)

CrateDoc_eq(a, b) == ModDoc_eq(a.topmod, b.topmod)

Page_eq(a, b) ==
    /\ a.tag = b.tag
    /\ CASE a.tag = "CratePage" -> CrateDoc_eq(a.doc, b.doc)
         [] a.tag = "ItemPage" -> ItemTag_eq(a.doc, b.doc)

\* a == b for two values of static type ty.
Eq_eq(ty, a, b) ==
    CASE ty = "ItemDoc" -> ItemDoc_eq(a, b)
      [] ty = "SimpleItemDoc" -> SimpleItemDoc_eq(a, b)
      [] ty = "ModDoc" -> ModDoc_eq(a, b)
      [] ty = "NmodDoc" -> NmodDoc_eq(a, b)
      [] ty = "EnumDoc" -> EnumDoc_eq(a, b)
      [] ty = "TraitDoc" -> TraitDoc_eq(a, b)
      [] ty = "ImplDoc" -> ImplDoc_eq(a, b)
      [] ty = "StructDoc" -> StructDoc_eq(a, b)
      [] ty = "ItemTag" -> ItemTag_eq(a, b)
      [] ty = "Page" -> Page_eq(a, b)

(***************************************************************************)
(* Inputs.  A subject is a value with its static type.                     *)
(***************************************************************************)
Typed(ty, v) == [ty |-> ty, val |-> v]

Docs == {Typed("Doc", DocOf(ps)) : ps \in SeqsUpTo(PagePool, MaxPages)}

Modules ==
    {Typed("ModDoc", ModDocOf(PlainItem(1, "m"), cs)) : cs \in SeqsUpTo(ChildPool, MaxItems)}

TagsOf(it) ==
    {ModTag(ModDocOf(it, <<FnTag(Simple1)>>)), NmodTag(NmodDocOf(it)),
     ConstTag(SimpleItemDocOf(it)), FnTag(SimpleItemDocOf(it)),
     EnumTag(EnumDocOf(it)), TraitTag(TraitDocOf(it)), ImplTag(ImplDocOf(it)),
     TyTag(SimpleItemDocOf(it)), StructTag(StructDocOf(it))}

ValuesOf(it) ==
    {Typed("ItemDoc", it), Typed("SimpleItemDoc", SimpleItemDocOf(it)),
     Typed("ModDoc", ModDocOf(it, <<FnTag(Simple1)>>)),
     Typed("NmodDoc", NmodDocOf(it)), Typed("EnumDoc", EnumDocOf(it)),
     Typed("TraitDoc", TraitDocOf(it)), Typed("ImplDoc", ImplDocOf(it)),
     Typed("StructDoc", StructDocOf(it)),
     Typed("Page", CratePage(CrateDocOf(ModDocOf(it, <<FnTag(Simple1)>>))))}
    \cup {Typed("ItemTag", t) : t \in TagsOf(it)}
    \cup {Typed("Page", ItemPage(t)) : t \in TagsOf(it)}

Values == UNION {ValuesOf(it) : it \in ItemDocs}

\* The item record a value embeds, read off the value's structure.
EmbeddedItem(tv) ==
    CASE tv.ty = "ItemDoc" -> tv.val
      [] tv.ty = "ItemTag" -> tv.val.doc.item
      [] tv.ty = "Page" /\ tv.val.tag = "ItemPage" -> tv.val.doc.doc.item
      [] tv.ty = "Page" /\ tv.val.tag = "CratePage" -> tv.val.doc.topmod.item
      [] OTHER -> tv.val.item

\* The same value with another item record embedded.
WithItem(tv, it) ==
    CASE tv.ty = "ItemDoc" -> it
      [] tv.ty = "ItemTag" -> [tv.val EXCEPT !.doc.item = it]
      [] tv.ty = "Page" /\ tv.val.tag = "ItemPage" -> [tv.val EXCEPT !.doc.doc.item = it]
      [] tv.ty = "Page" /\ tv.val.tag = "CratePage" -> [tv.val EXCEPT !.doc.topmod.item = it]
      [] OTHER -> [tv.val EXCEPT !.item = it]

FlipReexport(it) == [it EXCEPT !.reexport = ~@]

\* The value itself and the values that differ from it in one field of the
\* embedded item record.
Operands(tv) ==
    {WithItem(tv, [EmbeddedItem(tv) EXCEPT ![f[1]] = f[2]]) :
        f \in UNION {{<<n, v>> : v \in ItemFields[n]} : n \in DOMAIN ItemFields}}

NoCall == [on |-> "none", method |-> "none"]

(***************************************************************************)
(* Calls.                                                                  *)
(***************************************************************************)
Return(on, method, a, r) ==
    /\ op' = [on |-> on, method |-> method]
    /\ arg' = a
    /\ ret' = r
    /\ UNCHANGED subject

CallCrateDoc ==
    /\ subject.ty = "Doc"
    /\ Return("Doc", "CrateDoc", None, Doc_CrateDoc(subject.val))

CallCratemod ==
    /\ subject.ty = "Doc"
    /\ Return("Doc", "cratemod", None, Doc_cratemod(subject.val))

PagesMods ==
    /\ subject.ty = "Doc"
    /\ Return("PageUtils", "mods", None, Ok(PageUtils_mods(subject.val.pages)))

PagesNmods ==
    /\ subject.ty = "Doc"
    /\ Return("PageUtils", "nmods", None, Ok(PageUtils_nmods(subject.val.pages)))

PagesFns ==
    /\ subject.ty = "Doc"
    /\ Return("PageUtils", "fns", None, Ok(PageUtils_fns(subject.val.pages)))

PagesConsts ==
    /\ subject.ty = "Doc"
    /\ Return("PageUtils", "consts", None, Ok(PageUtils_consts(subject.val.pages)))

PagesEnums ==
    /\ subject.ty = "Doc"
    /\ Return("PageUtils", "enums", None, Ok(PageUtils_enums(subject.val.pages)))

PagesTraits ==
    /\ subject.ty = "Doc"
    /\ Return("PageUtils", "traits", None, Ok(PageUtils_traits(subject.val.pages)))

PagesImpls ==
    /\ subject.ty = "Doc"
    /\ Return("PageUtils", "impls", None, Ok(PageUtils_impls(subject.val.pages)))

PagesTypes ==
    /\ subject.ty = "Doc"
    /\ Return("PageUtils", "types", None, Ok(PageUtils_types(subject.val.pages)))

ModMods ==
    /\ subject.ty = "ModDoc"
    /\ Return("ModDoc", "mods", None, Ok(ModDoc_mods(subject.val)))

ModNmods ==
    /\ subject.ty = "ModDoc"
    /\ Return("ModDoc", "nmods", None, Ok(ModDoc_nmods(subject.val)))

ModFns ==
    /\ subject.ty = "ModDoc"
    /\ Return("ModDoc", "fns", None, Ok(ModDoc_fns(subject.val)))

ModConsts ==
    /\ subject.ty = "ModDoc"
    /\ Return("ModDoc", "consts", None, Ok(ModDoc_consts(subject.val)))

ModEnums ==
    /\ subject.ty = "ModDoc"
    /\ Return("ModDoc", "enums", None, Ok(ModDoc_enums(subject.val)))

ModTraits ==
    /\ subject.ty = "ModDoc"
    /\ Return("ModDoc", "traits", None, Ok(ModDoc_traits(subject.val)))

ModImpls ==
    /\ subject.ty = "ModDoc"
    /\ Return("ModDoc", "impls", None, Ok(ModDoc_impls(subject.val)))

ModTypes ==
    /\ subject.ty = "ModDoc"
    /\ Return("ModDoc", "types", None, Ok(ModDoc_types(subject.val)))

ModStructs ==
    /\ subject.ty = "ModDoc"
    /\ Return("ModDoc", "structs", None, Ok(ModDoc_structs(subject.val)))

CallItem ==
    /\ subject.ty \in ItemTypes
    /\ Return("Item", "item", None, Ok(Item_item(subject.ty, subject.val)))

CallId ==
    /\ subject.ty \in ItemTypes
    /\ Return("ItemUtils", "id", None, Ok(ItemUtils_id(subject.ty, subject.val)))

CallName ==
    /\ subject.ty \in ItemTypes
    /\ Return("ItemUtils", "name", None, Ok(ItemUtils_name(subject.ty, subject.val)))

CallPath ==
    /\ subject.ty \in ItemTypes
    /\ Return("ItemUtils", "path", None, Ok(ItemUtils_path(subject.ty, subject.val)))

CallBrief ==
    /\ subject.ty \in ItemTypes
    /\ Return("ItemUtils", "brief", None, Ok(ItemUtils_brief(subject.ty, subject.val)))

CallDesc ==
    /\ subject.ty \in ItemTypes
    /\ Return("ItemUtils", "desc", None, Ok(ItemUtils_desc(subject.ty, subject.val)))

CallSections ==
    /\ subject.ty \in ItemTypes
    /\ Return("ItemUtils", "sections", None,
              Ok(ItemUtils_sections(subject.ty, subject.val)))

CallEq ==
    /\ subject.ty \in {"ItemDoc", "Page"} \cup ItemTypes
    /\ \E b \in Operands(subject) :
          Return("Eq", "eq", Some(b), Ok(Eq_eq(subject.ty, subject.val, b)))

(***************************************************************************)
(* Specifications: one per family of operations, each over its own inputs. *)
(***************************************************************************)
InitDoc == subject \in Docs /\ arg = None /\ op = NoCall /\ ret = None

NextDoc ==
    \/ CallCrateDoc
    \/ CallCratemod
    \/ PagesMods
    \/ PagesNmods
    \/ PagesFns
    \/ PagesConsts
    \/ PagesEnums
    \/ PagesTraits
    \/ PagesImpls
    \/ PagesTypes

SpecDoc == InitDoc /\ [][NextDoc]_vars

InitMod == subject \in Modules /\ arg = None /\ op = NoCall /\ ret = None

NextMod ==
    \/ ModMods
    \/ ModNmods
    \/ ModFns
    \/ ModConsts
    \/ ModEnums
    \/ ModTraits
    \/ ModImpls
    \/ ModTypes
    \/ ModStructs

SpecMod == InitMod /\ [][NextMod]_vars

InitItem == subject \in Values /\ arg = None /\ op = NoCall /\ ret = None

NextItem ==
    \/ CallItem
    \/ CallId
    \/ CallName
    \/ CallPath
    \/ CallBrief
    \/ CallDesc
    \/ CallSections
    \/ CallEq

SpecItem == InitItem /\ [][NextItem]_vars

(***************************************************************************)
(* What the operations are expected to return, stated without the code's   *)
(* folds: the positions that match, and the payload at each.               *)
(***************************************************************************)
MethodTag ==
    [mods |-> "ModTag", nmods |-> "NmodTag", fns |-> "FnTag",
     consts |-> "ConstTag", enums |-> "EnumTag", traits |-> "TraitTag",
     impls |-> "ImplTag", types |-> "TyTag", structs |-> "StructTag"]

\* The k-th smallest element of a set of positions.
KthOf(idx, k) == CHOOSE i \in idx : Cardinality({j \in idx : j <= i}) = k

\* r lists payload[i] for the positions i of idx, in increasing order.
IsNarrowing(r, idx, payload) ==
    /\ Len(r) = Cardinality(idx)
    /\ \A k \in 1..Len(r) : r[k] = payload[KthOf(idx, k)]

ChildrenTagged(m, t) == {i \in 1..Len(m.items) : m.items[i].tag = t}

PagesTagged(ps, t) ==
    {i \in 1..Len(ps) : ps[i].tag = "ItemPage" /\ ps[i].doc.tag = t}

CratePages(ps) == {i \in 1..Len(ps) : ps[i].tag = "CratePage"}

ModDoc_call(m, self) ==
    CASE m = "mods" -> ModDoc_mods(self)
      [] m = "nmods" -> ModDoc_nmods(self)
      [] m = "fns" -> ModDoc_fns(self)
      [] m = "consts" -> ModDoc_consts(self)
      [] m = "enums" -> ModDoc_enums(self)
      [] m = "traits" -> ModDoc_traits(self)
      [] m = "impls" -> ModDoc_impls(self)
      [] m = "types" -> ModDoc_types(self)
      [] m = "structs" -> ModDoc_structs(self)

RECURSIVE SumLen(_, _)
SumLen(ms, self) ==
    IF ms = {} THEN 0
    ELSE LET m == CHOOSE x \in ms : TRUE
         IN  Len(ModDoc_call(m, self)) + SumLen(ms \ {m}, self)

CalledCrateDoc == op = [on |-> "Doc", method |-> "CrateDoc"]

CalledCratemod == op = [on |-> "Doc", method |-> "cratemod"]

(***************************************************************************)
(* C1 (as claimed): whenever CrateDoc() has been called on a Document with *)
(* exactly one Crate page, at any position, the call did not fail and      *)
(* returned that page's payload.  The code fails unless the Crate page is  *)
(* the last page.                                                          *)
(***************************************************************************)
C1_OneCratePageIsFound ==
    (CalledCrateDoc /\ Cardinality(CratePages(subject.val.pages)) = 1) =>
        /\ ~ret.failed
        /\ ret.val = subject.val.pages[KthOf(CratePages(subject.val.pages), 1)].doc

(***************************************************************************)
(* C2 (as claimed): whenever CrateDoc() has been called on a Document with *)
(* zero Crate pages or with two or more, the call failed.  The code        *)
(* returns the last page's payload when several Crate pages exist and the  *)
(* last page is one of them.                                               *)
(***************************************************************************)
C2_ZeroOrManyCratePagesFail ==
    (CalledCrateDoc /\ Cardinality(CratePages(subject.val.pages)) # 1) =>
        ret.failed

(***************************************************************************)
(* C3: a module-level narrowing operation for tag T returns exactly the    *)
(* payloads of the children tagged T, in their original order and with     *)
(* duplicates kept; it does not fail, and its result is empty if and only  *)
(* if no child is tagged T.                                                *)
(***************************************************************************)
C3_ModuleNarrowingExact ==
    (op.on = "ModDoc") =>
        LET m == subject.val
            idx == ChildrenTagged(m, MethodTag[op.method])
        IN  /\ op.method \in ModDocMethods
            /\ ~ret.failed
            /\ IsNarrowing(ret.val, idx, [i \in idx |-> m.items[i].doc])
            /\ (ret.val = <<>>) <=> (idx = {})

\* fns() was called on a module with two different Fn children around a
\* child of another tag, and with the same Fn child twice.
C3_Witness ==
    /\ op = [on |-> "ModDoc", method |-> "fns"]
    /\ subject.val.items = <<FnTag(Simple2), StructTag(StructDocOf(PlainItem(1, "s"))), FnTag(Simple1)>>
    /\ ret = Ok(<<Simple2, Simple1>>)

(***************************************************************************)
(* C4: a page-level narrowing operation for tag T returns exactly the      *)
(* payloads of the Item pages whose inner tag is T, in page order; a Crate *)
(* page contributes nothing, not even to mods(); with no matching page the *)
(* result is the empty sequence and not a failure.                         *)
(***************************************************************************)
C4_PageNarrowingExact ==
    (op.on = "PageUtils") =>
        LET ps == subject.val.pages
            idx == PagesTagged(ps, MethodTag[op.method])
        IN  /\ op.method \in PageUtilsMethods
            /\ ~ret.failed
            /\ IsNarrowing(ret.val, idx, [i \in idx |-> ps[i].doc.doc])
            /\ (idx = {}) => ret.val = <<>>
            /\ Len(ret.val) <= Len(ps) - Cardinality(CratePages(ps))

\* mods() was called on pages holding a Crate page and a Mod item page.
C4_Witness ==
    /\ op = [on |-> "PageUtils", method |-> "mods"]
    /\ subject.val.pages = <<CratePage(CrateA), ItemPage(ModTag(ModA)), ItemPage(FnTag(Simple1))>>
    /\ ret = Ok(<<ModA>>)

(***************************************************************************)
(* C5: cratemod() fails exactly on the Documents on which CrateDoc() fails,*)
(* and otherwise returns the root module of CrateDoc()'s payload, equal to *)
(* it under the derived equality and with the same item record, children   *)
(* and index.                                                              *)
(***************************************************************************)
C5_CratemodIsTopmodOfCrateDoc ==
    CalledCratemod =>
        LET c == Doc_CrateDoc(subject.val)
        IN  /\ ret.failed <=> c.failed
            /\ ~c.failed =>
                  /\ ModDoc_eq(ret.val, c.val.topmod)
                  /\ ret.val.item = c.val.topmod.item
                  /\ ret.val.items = c.val.topmod.items
                  /\ ret.val.index = c.val.topmod.index

\* cratemod() was called on a Document ending in a Crate page whose root
\* module has children, and returned that module.
C5_Witness ==
    /\ CalledCratemod
    /\ subject.val.pages = <<ItemPage(FnTag(Simple1)), CratePage(CrateA)>>
    /\ ret = Ok(CrateA.topmod)
    /\ Len(ret.val.items) = 2

(***************************************************************************)
(* C6: every ItemUtils accessor returns the like-named field of the item   *)
(* record the value embeds, and item() returns that record itself, for     *)
(* each of the seven payload types and for an ItemTag of any variant.      *)
(***************************************************************************)
C6_AccessorsAgreeWithItem ==
    /\ (op.on = "ItemUtils") => ret = Ok(EmbeddedItem(subject)[op.method])
    /\ (op.on = "Item") => ret = Ok(EmbeddedItem(subject))

\* name() was called on an ItemTag holding a Const.
C6_Witness ==
    /\ op = [on |-> "ItemUtils", method |-> "name"]
    /\ subject.ty = "ItemTag"
    /\ subject.val.tag = "ConstTag"
    /\ ret = Ok(subject.val.doc.item.name)

(***************************************************************************)
(* C7 (as claimed): the page-level narrowing offers the nine operations of *)
(* the module-level narrowing, and each page-level operation on Item pages *)
(* wrapping children cs returns what the module-level operation returns on *)
(* a module with children cs.  PageUtils has no structs().                 *)
(***************************************************************************)
C7_SameOperationSet ==
    /\ \A m \in ModDocMethods : m \in PageUtilsMethods
    /\ (op.on = "PageUtils" /\ CratePages(subject.val.pages) = {}) =>
          LET ps == subject.val.pages
              cs == [i \in 1..Len(ps) |-> ps[i].doc]
          IN  ret = Ok(ModDoc_call(op.method, ModDocOf(PlainItem(1, "m"), cs)))

(***************************************************************************)
(* C8: two values that differ only in the reexport flag of the embedded    *)
(* item record compare unequal, and two identical values compare equal:    *)
(* for item records, every payload type, ItemTag and Page.                 *)
(***************************************************************************)
C8_ReexportParticipatesInEq ==
    (op.on = "Eq") =>
        /\ (arg = Some(subject.val)) => ret = Ok(TRUE)
        /\ (arg = Some(WithItem(subject, FlipReexport(EmbeddedItem(subject))))) =>
              ret = Ok(FALSE)

\* A page was compared with its copy whose item is a reexport.
C8_Witness ==
    /\ op.on = "Eq"
    /\ subject.ty = "Page"
    /\ ~EmbeddedItem(subject).reexport
    /\ arg = Some(WithItem(subject, FlipReexport(EmbeddedItem(subject))))
    /\ ret = Ok(FALSE)

(***************************************************************************)
(* C9: CrateDoc() succeeds if and only if the page sequence is non-empty   *)
(* and its last page is a Crate page, and then returns the last page's     *)
(* payload, however many Crate pages precede it.                           *)
(***************************************************************************)
C9_CrateDocIsLastPage ==
    CalledCrateDoc =>
        LET ps == subject.val.pages
        IN  /\ ~ret.failed <=> (Len(ps) > 0 /\ ps[Len(ps)].tag = "CratePage")
            /\ ~ret.failed => ret.val = ps[Len(ps)].doc

\* CrateDoc() was called on two Crate pages and returned the second.
C9_Witness ==
    /\ CalledCrateDoc
    /\ subject.val.pages = <<CratePage(CrateA), ItemPage(FnTag(Simple1)), CratePage(CrateB)>>
    /\ ret = Ok(CrateB)

(***************************************************************************)
(* C10: the nine module-level operations partition the children: each      *)
(* returns as many payloads as there are children with its tag, so the     *)
(* nine lengths sum to the number of children; consts(), fns() and types() *)
(* select by tag although they share one payload type.                     *)
(***************************************************************************)
C10_NarrowingsPartitionChildren ==
    (subject.ty = "ModDoc" /\ op.on = "ModDoc") =>
        LET m == subject.val
        IN  /\ Len(ret.val) = Cardinality(ChildrenTagged(m, MethodTag[op.method]))
            /\ SumLen(ModDocMethods, m) = Len(m.items)
            /\ \A n \in ModDocMethods :
                  Len(ModDoc_call(n, m)) = Cardinality(ChildrenTagged(m, MethodTag[n]))

\* fns() was called on a module holding the same payload as a Const, a Fn
\* and a Ty child, and returned it once.
C10_Witness ==
    /\ op = [on |-> "ModDoc", method |-> "fns"]
    /\ subject.val.items = <<ConstTag(Simple1), FnTag(Simple1), TyTag(Simple1)>>
    /\ ret = Ok(<<Simple1>>)

=============================================================================
